---- MODULE Spec2Model ----
(***************************************************************************)
(* Model of the item-pricing pipeline of flipscout (src/app.py).           *)
(*                                                                         *)
(* search_ebay_items is modelled as a step machine that stops at every     *)
(* call to a collaborator that decides how it goes on (token exchange, the *)
(* three search tiers).  Money is counted in units of half a cent, and every    *)
(* upstream amount is a whole number of cents (an even number of units),   *)
(* so that the mean of two amounts is again a whole number of units.       *)
(***************************************************************************)
EXTENDS Integers, Sequences, FiniteSets, TLC

\* ------------------------------------------------------------------ bounds
MaxItems == 2                      \* longest itemSummaries array of a response
MaxResultsVals == {10, 50, 250}    \* values of the max_results parameter
PriceNums == {-2, 2}               \* numeric price texts sent by the upstream
ShipNums == {-2, 2}                \* numeric shipping cost texts

\* ------------------------------------------------------- program constants
FilterCap == 200                   \* min(max_results, 200)
SimpleLimit == 20                  \* "limit": 20 of the simple search
HTTP_OK == 200

\* --------------------------------------------------------- upstream values
\* The price field of an item summary:
\*   noobj    no "price" key, or an empty price object
\*   novalue  a price object without a "value" key
\*   null     "value": null
\*   text     "value": a text that float() rejects
\*   num      "value": a text that float() accepts, v its amount
PriceFields ==
    {[kind |-> k, v |-> 0] : k \in {"noobj", "novalue", "null", "text"}}
        \cup {[kind |-> "num", v |-> n] : n \in PriceNums}

\* The shippingOptions field of an item summary:
\*   noopts   no "shippingOptions" key, or an empty list
\*   noobj    first option without a (non-empty) "shippingCost" object
\*   novalue, null, text, num   as for the price, of the first option's cost
ShipFields ==
    {[kind |-> k, v |-> 0] : k \in {"noopts", "noobj", "novalue", "null", "text"}}
        \cup {[kind |-> "num", v |-> n] : n \in ShipNums}

RawKinds == [price : PriceFields, ship : ShipFields]

\* An itemSummaries array; the item at position i carries itemId i.
RawLists ==
    UNION {[1..n -> RawKinds] : n \in 0..MaxItems}

WithIds(seq) ==
    [i \in 1..Len(seq) |->
        [price |-> seq[i].price, ship |-> seq[i].ship, itemId |-> i]]

\* ------------------------------------------------------------- float(text)
\* float(x): a number for numeric text, ValueError for other text,
\* TypeError for None.
Float(field) ==
    CASE field.kind = "num"  -> [exc |-> "none", v |-> field.v]
      [] field.kind = "text" -> [exc |-> "ValueError", v |-> 0]
      [] field.kind = "null" -> [exc |-> "TypeError", v |-> 0]

\* dict.get("value", "0"): the default applies only when the key is missing.
GetValue(field) ==
    IF field.kind = "novalue" THEN [kind |-> "num", v |-> 0] ELSE field

\* ------------------------------------------------------------ the listings
NoListing == [price |-> 0, price_with_shipping |-> 0, shipping_cost |-> 0, itemId |-> 0]

\* Shipping cost of one item: 0.0 unless the first option carries a cost
\* object; a ValueError of float() is caught, a TypeError is not.
ShippingCost(item) ==
    IF item.ship.kind \in {"noopts", "noobj"}
    THEN [exc |-> "none", v |-> 0]
    ELSE LET f == Float(GetValue(item.ship))
         IN  IF f.exc = "ValueError" THEN [exc |-> "none", v |-> 0] ELSE f

\* NormalizeItem with the total taken to be the base price alone.
NormalizeItem_BasePriceOnly(item) ==
    IF item.price.kind = "noobj"
    THEN [kind |-> "skip", listing |-> NoListing]
    ELSE LET price_value == GetValue(item.price)
             shipping == ShippingCost(item)
         IN  IF shipping.exc # "none"
             THEN [kind |-> "raise", listing |-> NoListing]
             ELSE LET price_float == Float(price_value)
                  IN  CASE price_float.exc = "ValueError" ->
                             [kind |-> "skip", listing |-> NoListing]
                        [] price_float.exc = "TypeError" ->
                             [kind |-> "raise", listing |-> NoListing]
                        [] OTHER ->
                             [kind |-> "ok",
                              listing |->
                                 [price |-> price_float.v,
                                  price_with_shipping |-> price_float.v,
                                  shipping_cost |-> shipping.v,
                                  itemId |-> item.itemId]]

\* The body of the loop over the items of a response.  kind is
\*   skip   nothing appended (no price object, or ValueError on the price)
\*   raise  an exception leaves the loop
\*   ok     listing is appended
NormalizeItem(item) ==
    IF item.price.kind = "noobj"
    THEN [kind |-> "skip", listing |-> NoListing]
    ELSE LET price_value == GetValue(item.price)
             shipping == ShippingCost(item)
         IN  IF shipping.exc # "none"
             THEN [kind |-> "raise", listing |-> NoListing]
             ELSE LET price_float == Float(price_value)
                  IN  CASE price_float.exc = "ValueError" ->
                             [kind |-> "skip", listing |-> NoListing]
                        [] price_float.exc = "TypeError" ->
                             [kind |-> "raise", listing |-> NoListing]
                        [] OTHER ->
                             [kind |-> "ok",
                              listing |->
                                 [price |-> price_float.v,
                                  price_with_shipping |-> price_float.v + shipping.v,
                                  shipping_cost |-> shipping.v,
                                  itemId |-> item.itemId]]

\* The loop: items i..Len(items) appended to acc, until one raises.
RECURSIVE ProcessFrom(_, _, _)
ProcessFrom(items, i, acc) ==
    IF i > Len(items)
    THEN [items |-> acc, raised |-> FALSE]
    ELSE LET n == NormalizeItem(items[i])
         IN  CASE n.kind = "raise" -> [items |-> acc, raised |-> TRUE]
               [] n.kind = "skip"  -> ProcessFrom(items, i + 1, acc)
               [] OTHER            -> ProcessFrom(items, i + 1, Append(acc, n.listing))

ProcessItems(items) == ProcessFrom(items, 1, <<>>)

\* ---------------------------------------------------------- the statistics
\* InsertSorted keeping the order of arrival.
InsertSorted_Arrival(sorted, x) == Append(sorted, x)

\* sorted(current_items, key=price_with_shipping): stable, ascending.
RECURSIVE InsertSorted(_, _)
InsertSorted(sorted, x) ==
    IF sorted = <<>>
    THEN <<x>>
    ELSE IF sorted[Len(sorted)].price_with_shipping <= x.price_with_shipping
         THEN Append(sorted, x)
         ELSE Append(InsertSorted(SubSeq(sorted, 1, Len(sorted) - 1), x),
                     sorted[Len(sorted)])

RECURSIVE SortedByTotal(_)
SortedByTotal(items) ==
    IF items = <<>>
    THEN <<>>
    ELSE InsertSorted(SortedByTotal(SubSeq(items, 1, Len(items) - 1)),
                      items[Len(items)])

\* Median with the sum of the two middle amounts left unhalved.
Median_NotHalved(prices) ==
    LET n == Len(prices)
    IN  IF n % 2 = 1
        THEN prices[(n + 1) \div 2]
        ELSE prices[n \div 2] + prices[n \div 2 + 1]

\* statistics.median of an ascending, non-empty sequence of amounts.
Median(prices) ==
    LET n == Len(prices)
    IN  IF n % 2 = 1
        THEN prices[(n + 1) \div 2]
        ELSE (prices[n \div 2] + prices[n \div 2 + 1]) \div 2

\* stats = {}
EmptyDict == [k \in {} |-> 0]

\* Outcome with zero-valued statistics for an empty list of listings.
Outcome_ZeroFilled(items) ==
    IF items # <<>>
    THEN LET current_items_sorted == SortedByTotal(items)
             current_prices_with_shipping ==
                 [i \in 1..Len(current_items_sorted) |->
                     current_items_sorted[i].price_with_shipping]
         IN  [current_items |-> current_items_sorted,
              sold_items |-> <<>>,
              stats |->
                 [min_current_price |-> current_prices_with_shipping[1],
                  median_current_price |-> Median(current_prices_with_shipping),
                  max_current_price |->
                      current_prices_with_shipping[Len(current_prices_with_shipping)],
                  count_current |-> Len(items)]]
    ELSE [current_items |-> items, sold_items |-> <<>>,
          stats |-> [min_current_price |-> 0, median_current_price |-> 0,
                     max_current_price |-> 0, count_current |-> 0]]

\* Outcome with the statistics taken over the base prices.
Outcome_OverBasePrice(items) ==
    IF items # <<>>
    THEN LET current_items_sorted == SortedByTotal(items)
             current_prices ==
                 [i \in 1..Len(current_items_sorted) |->
                     current_items_sorted[i].price]
         IN  [current_items |-> current_items_sorted,
              sold_items |-> <<>>,
              stats |->
                 [min_current_price |-> current_prices[1],
                  median_current_price |-> Median(current_prices),
                  max_current_price |-> current_prices[Len(current_prices)],
                  count_current |-> Len(items)]]
    ELSE [current_items |-> items, sold_items |-> <<>>, stats |-> EmptyDict]

\* Lines 262-292: stats and the returned dictionary (sold_items stays []).
Outcome(items) ==
    IF items # <<>>
    THEN LET current_items_sorted == SortedByTotal(items)
             current_prices_with_shipping ==
                 [i \in 1..Len(current_items_sorted) |->
                     current_items_sorted[i].price_with_shipping]
         IN  [current_items |-> current_items_sorted,
              sold_items |-> <<>>,
              stats |->
                 [min_current_price |-> current_prices_with_shipping[1],
                  median_current_price |-> Median(current_prices_with_shipping),
                  max_current_price |->
                      current_prices_with_shipping[Len(current_prices_with_shipping)],
                  count_current |-> Len(items)]]
    ELSE [current_items |-> items, sold_items |-> <<>>, stats |-> EmptyDict]

\* EmptyOutcome as the bare list of listings.
EmptyOutcome_Bare == [current_items |-> <<>>]

\* The dictionary returned when no token was obtained and by the outer
\* except clause.
EmptyOutcome == [current_items |-> <<>>, sold_items |-> <<>>, stats |-> EmptyDict]

\* ---------------------------------------------------------------- the state
VARIABLES
    pc,             \* position inside search_ebay_items
    max_results,    \* the parameter of the call
    oauth_token,    \* TRUE when get_ebay_oauth_token returned a token
    calls,          \* the search requests issued so far, in order
    response,       \* the search response whose items are being read or were
                    \* retained (response, and simple_response once the
                    \* simple search has answered); the body of a response
                    \* that yielded no listing is never read again and is
                    \* dropped
    current_items,  \* the listings appended so far
    result          \* the returned dictionary, <<>> before the return

vars == <<pc, max_results, oauth_token, calls, response, current_items, result>>

\* The main program: st.session_state, the widgets and the locals of one run.
VARIABLES
    apc,               \* position of the script run, "idle" between runs
    clicked,           \* the interaction that started the run
    image_to_process,  \* the uploaded image, 0 when there is none
    image_bytes,       \* st.session_state['current_image_bytes'], -1 unset
    retry_status,      \* st.session_state['retry_status']
    detected_items,    \* the query_text of every detected item
    idx,               \* position of the pricing loop
    ebay_data,         \* the dictionary of the last search of the loop
    results,           \* the result entries of the run
    r_idx,             \* position of the loop over results_no_data
    rendered,          \* the retry buttons on the page
    cycle,             \* the retry cycle the last step ran, if any
    vision             \* what the vision models answer to the image

avars == <<apc, clicked, image_to_process, image_bytes, retry_status,
           detected_items, idx, ebay_data, results, r_idx, rendered, cycle,
           vision>>

allvars == <<vars, avars>>

Min(a, b) == IF a <= b THEN a ELSE b

NoResponse == [status_code |-> 0, items |-> <<>>]

Consumed(r) == [status_code |-> r.status_code, items |-> <<>>]

\* What a search request can answer: 200 with an itemSummaries array
\* (a missing key reads as the empty array), or a non-200 status.
Responses ==
    {[status_code |-> HTTP_OK, items |-> WithIds(l)] : l \in RawLists}
        \cup {[status_code |-> 500, items |-> <<>>]}

\* One issued request: the tier that sent it, its parameters, and how it
\* ended: "ok" (status 200), "err" (another status), "exc" (requests.get or
\* response.json() raised: network error, timeout); has_items tells whether
\* its itemSummaries array was non-empty.
Call(tier, filtered, limit, outcome, has_items) ==
    [tier |-> tier, filtered |-> filtered, limit |-> limit,
     outcome |-> outcome, has_items |-> has_items]

Answered(tier, filtered, limit, r) ==
    Call(tier, filtered, limit,
         IF r.status_code = HTTP_OK THEN "ok" ELSE "err", r.items # <<>>)

\* The keys of retry_status: "retry_no_item", and f"retry_{r_idx}_{hash}"
\* with the hash of the original query taken to be the query itself.
NoKey == [r_idx |-> -2, query |-> ""]

NoItemKey == [r_idx |-> -1, query |-> ""]

RetryKey(i, query) == [r_idx |-> i, query |-> query]

\* What started a run: kind "none" (an upload, st.rerun()), "analyze" or
\* "retry" (a click on that button).
Interaction(kind, key) == [kind |-> kind, key |-> key]

\* ebay_data_retry is what the last search of the cycle returned.
NoCycle ==
    [ran |-> FALSE, key |-> NoKey, original |-> "", resolver_calls |-> 0,
     offered |-> <<>>, searched |-> <<>>, ebay_data_retry |-> EmptyOutcome]

\* No image has been sent to the vision models.
NoVision == [api_key |-> FALSE, answers |-> <<>>]

\* The script before the first interaction of a session.
ScriptIdle ==
    /\ vision = NoVision
    /\ apc = "idle"
    /\ clicked = Interaction("none", NoKey)
    /\ image_to_process = 0
    /\ image_bytes = -1
    /\ retry_status = EmptyDict
    /\ detected_items = <<>>
    /\ idx = 1
    /\ ebay_data = EmptyOutcome
    /\ results = <<>>
    /\ r_idx = 0
    /\ rendered = {}
    /\ cycle = NoCycle

Init ==
    /\ pc = "token"
    /\ max_results \in MaxResultsVals
    /\ oauth_token = FALSE
    /\ calls = <<>>
    /\ response = NoResponse
    /\ current_items = <<>>
    /\ result = <<>>
    /\ ScriptIdle

\* How a token exchange can go: whether EBAY_APP_ID and EBAY_CERT_ID are in
\* the secrets, and what the token endpoint answers: "exc" (the request or
\* response.json() raised), "err" (a status other than 200), "notoken"
\* (200 without access_token), "token".
TokenInputs == [secrets : BOOLEAN, answer : {"exc", "err", "notoken", "token"}]

\* get_ebay_oauth_token: raised tells whether an exception leaves the
\* function, token whether it returns a token (None otherwise).  The
\* KeyError of a missing secret is caught like every other exception.
GetEbayOauthToken(in) ==
    [raised |-> FALSE, token |-> in.secrets /\ in.answer = "token"]

\* Lines 102-105: no token, no search.
GetToken ==
    /\ pc = "token"
    /\ \E in \in TokenInputs, ok \in BOOLEAN :
          /\ ok = GetEbayOauthToken(in).token
          /\ oauth_token' = ok
          /\ IF ok
             THEN pc' = "tier1" /\ result' = result
             ELSE pc' = "done" /\ result' = EmptyOutcome
    /\ UNCHANGED <<max_results, calls, response, current_items>>
    /\ UNCHANGED avars

\* Lines 116-128: the filtered search.  answers: what the request can be
\* answered with.
Tier1From(answers) ==
    /\ pc = "tier1"
    /\ \/ /\ calls' = Append(calls, Call(1, TRUE, Min(max_results, FilterCap), "exc", FALSE))
          /\ result' = EmptyOutcome
          /\ pc' = "done"
          /\ UNCHANGED response
       \/ \E r \in answers :
             /\ calls' = Append(calls, Answered(1, TRUE, Min(max_results, FilterCap), r))
             /\ response' = r
             /\ pc' = IF r.status_code = HTTP_OK /\ r.items = <<>>
                      THEN "tier2" ELSE "normalize"
             /\ result' = result
    /\ UNCHANGED <<max_results, oauth_token, current_items>>
    /\ UNCHANGED avars

Tier1 == Tier1From(Responses)

\* Lines 129-134: the same search without the filter.  answers: what the request can be
\* answered with.
Tier2From(answers) ==
    /\ pc = "tier2"
    /\ \/ /\ calls' = Append(calls, Call(2, FALSE, Min(max_results, FilterCap), "exc", FALSE))
          /\ result' = EmptyOutcome
          /\ pc' = "done"
          /\ UNCHANGED response
       \/ \E r \in answers :
             /\ calls' = Append(calls, Answered(2, FALSE, Min(max_results, FilterCap), r))
             /\ response' = r
             /\ pc' = "normalize"
             /\ result' = result
    /\ UNCHANGED <<max_results, oauth_token, current_items>>
    /\ UNCHANGED avars

Tier2 == Tier2From(Responses)

\* Lines 136-189: the listings of the response, or the error message.
Normalize ==
    /\ pc = "normalize"
    /\ IF response.status_code = HTTP_OK
       THEN LET p == ProcessItems(response.items)
            IN  IF p.raised
                THEN /\ result' = EmptyOutcome
                     /\ pc' = "done"
                     /\ current_items' = current_items
                     /\ response' = response
                ELSE /\ current_items' = p.items
                     /\ pc' = IF p.items = <<>> THEN "tier3" ELSE "stats"
                     /\ result' = result
                     /\ response' = IF p.items = <<>> THEN Consumed(response) ELSE response
       ELSE /\ current_items' = <<>>
            /\ pc' = "tier3"
            /\ result' = result
            /\ response' = response
    /\ UNCHANGED <<max_results, oauth_token, calls>>
    /\ UNCHANGED avars

\* Lines 189-235: the simple search; every exception is swallowed.  answers: what the request can be
\* answered with.
Tier3From(answers) ==
    /\ pc = "tier3"
    /\ \/ /\ calls' = Append(calls, Call(3, FALSE, SimpleLimit, "exc", FALSE))
          /\ UNCHANGED <<response, current_items>>
       \/ \E r \in answers :
             /\ calls' = Append(calls, Answered(3, FALSE, SimpleLimit, r))
             /\ response' = r
             /\ current_items' =
                   IF r.status_code = HTTP_OK
                   THEN current_items \o ProcessItems(r.items).items
                   ELSE current_items
    /\ pc' = "stats"
    /\ UNCHANGED <<max_results, oauth_token, result>>
    /\ UNCHANGED avars

Tier3 == Tier3From(Responses)

\* Lines 237-292: the insights call, whose answer is not used and whose
\* exceptions are swallowed (sold_items stays []), then the statistics.
Stats ==
    /\ pc = "stats"
    /\ result' = Outcome(current_items)
    /\ pc' = "done"
    /\ UNCHANGED <<max_results, oauth_token, calls, response, current_items>>
    /\ UNCHANGED avars

Next ==
    \/ GetToken
    \/ Tier1
    \/ Tier2
    \/ Normalize
    \/ Tier3
    \/ Stats

Spec == Init /\ [][Next]_allvars

\* ============================================================ the script
\* The main program (lines 534-960) runs once per user interaction.  Its
\* calls of search_ebay_items are taken as a whole: SearchEbay gives the
\* returned dictionary for the answers of the token exchange and of the
\* three searches (NoResponse: the request raised).
MaxDetected == 2                   \* most items the vision model detects
MaxAlternatives == 4               \* longest array the resolver's model sends

ModelCount == 3                    \* len(model_names) of the resolver
MaxTerms == 3                      \* search_terms[:3]

SearchEbay(token, a1, a2, a3) ==
    IF ~token \/ a1 = NoResponse
    THEN EmptyOutcome
    ELSE LET unfiltered == a1.status_code = HTTP_OK /\ a1.items = <<>>
         IN  IF unfiltered /\ a2 = NoResponse
             THEN EmptyOutcome
             ELSE LET answer == IF unfiltered THEN a2 ELSE a1
                      p == IF answer.status_code = HTTP_OK
                           THEN ProcessItems(answer.items)
                           ELSE [items |-> <<>>, raised |-> FALSE]
                  IN  IF p.raised
                      THEN EmptyOutcome
                      ELSE IF p.items = <<>> /\ a3.status_code = HTTP_OK
                           THEN Outcome(ProcessItems(a3.items).items)
                           ELSE Outcome(p.items)

\* The answers the searches of the script receive.
ScriptAnswers ==
    { NoResponse,
      [status_code |-> 500, items |-> <<>>],
      [status_code |-> HTTP_OK, items |-> <<>>],
      [status_code |-> HTTP_OK, items |-> WithIds(
          << [price |-> [kind |-> "num", v |-> 2], ship |-> [kind |-> "num", v |-> 2]],
             [price |-> [kind |-> "num", v |-> 2], ship |-> [kind |-> "noopts", v |-> 0]] >>)],
      [status_code |-> HTTP_OK, items |-> WithIds(
          << [price |-> [kind |-> "novalue", v |-> 0], ship |-> [kind |-> "noopts", v |-> 0]] >>)] }

\* What search_ebay_items can return to the script.
SearchOutcomes ==
    { SearchEbay(t, a1, a2, a3) :
        t \in BOOLEAN, a1 \in ScriptAnswers, a2 \in ScriptAnswers, a3 \in ScriptAnswers }

PricedOutcomes == { o \in SearchOutcomes : o.current_items # <<>> }

\* item.get("itemWebUrl", ""): the URL of a listing names its item.
ItemWebUrl(listing) == listing.itemId

\* ------------------------------------------------------------ the resolver
\* A query_text that is no string but is truthy, such as the number of an
\* ISBN: json.loads returns it as an int.
NonText == "#int"

\* The query_text values the models send ("" also for a missing key).
CandidateTexts == {"", "a", "b", NonText}

TermLists == UNION {[1..n -> CandidateTexts] : n \in 0..MaxAlternatives}

\* One model call of the resolver:
\*   exc      generate_content or response.text raised
\*   badjson  json.loads raised JSONDecodeError
\*   notlist  valid JSON that is no array
\*   baditem  an array with an element without .get (AttributeError)
\*   list     an array of objects, terms their query_text values
Failed(k) == [kind |-> k, terms |-> <<>>]

Listed(t) == [kind |-> "list", terms |-> t]

\* The configuration and the answers of the models, in the order of
\* model_names, up to the first usable one.
ResolverInputs ==
    {[api_key |-> FALSE, answers |-> <<>>],
     [api_key |-> TRUE, answers |-> <<Failed("exc"), Failed("exc"), Failed("exc")>>],
     [api_key |-> TRUE, answers |-> <<Failed("baditem"), Failed("notlist"), Failed("badjson")>>]}
        \cup {[api_key |-> TRUE, answers |-> pre \o <<Listed(t)>>] :
                pre \in {<<>>, <<Failed("exc")>>, <<Failed("badjson"), Failed("notlist")>>},
                t \in TermLists}

\* [alt.get("query_text", "") for alt in alternatives if alt.get("query_text")]
RECURSIVE QueryTexts(_)
QueryTexts(terms) ==
    IF terms = <<>>
    THEN <<>>
    ELSE IF Head(terms) = ""
         THEN QueryTexts(Tail(terms))
         ELSE <<Head(terms)>> \o QueryTexts(Tail(terms))

FirstN(seq, n) == SubSeq(seq, 1, Min(Len(seq), n))

\* SearchTermsFrom with a stock candidate when no model sent an array.
RECURSIVE SearchTermsFrom_Fallback(_, _)
SearchTermsFrom_Fallback(answers, m) ==
    IF m > Min(Len(answers), ModelCount)
    THEN <<"b">>
    ELSE IF answers[m].kind = "list"
         THEN FirstN(QueryTexts(answers[m].terms), MaxTerms)
         ELSE SearchTermsFrom_Fallback(answers, m + 1)

\* Lines 493-524: the first model that sends an array decides.
RECURSIVE SearchTermsFrom(_, _)
SearchTermsFrom(answers, m) ==
    IF m > Min(Len(answers), ModelCount)
    THEN <<>>
    ELSE IF answers[m].kind = "list"
         THEN FirstN(QueryTexts(answers[m].terms), MaxTerms)
         ELSE SearchTermsFrom(answers, m + 1)

\* get_alternative_search_terms: a missing secret ends in the outer except.
GetAlternativeSearchTerms(in) ==
    IF in.api_key THEN SearchTermsFrom(in.answers, 1) ELSE <<>>

\* Lines 665-695: the same loop of the nothing-detected case; it keeps
\* the whole array.
RECURSIVE InlineTermsFrom(_, _)
InlineTermsFrom(answers, m) ==
    IF m > Min(Len(answers), ModelCount)
    THEN <<>>
    ELSE IF answers[m].kind = "list"
         THEN QueryTexts(answers[m].terms)
         ELSE InlineTermsFrom(answers, m + 1)

\* ------------------------------------------------------- the retry records
\* The dictionaries stored in retry_status, by their shape:
\*   processing      {'processing': True}
\*   not_processing  {'processing': False}
\*   tried           {'tried': True, 'success': False}
\*   success         {'success': True, 'query', 'min_price', 'median_price', 'link'}
Record(kind) ==
    [kind |-> kind, query |-> "", min_price |-> 0, median_price |-> 0, link |-> 0]

\* StatOr0 giving the default whatever the statistics hold.
StatOr0_Default(stats, key) == 0

\* stats_retry.get(key, 0)
StatOr0(stats, key) == IF key \in DOMAIN stats THEN stats[key] ELSE 0

\* Lines 935-941 and 718-724.
SuccessRecord(alt_query, ebay_data_retry) ==
    [kind |-> "success",
     query |-> alt_query,
     min_price |-> StatOr0(ebay_data_retry.stats, "min_current_price"),
     median_price |-> StatOr0(ebay_data_retry.stats, "median_current_price"),
     link |-> ItemWebUrl(ebay_data_retry.current_items[1])]

\* Store replacing the whole dictionary by the one record.
Store_Alone(status, key, record) == [k \in {key} |-> record]

\* retry_status[key] = record
Store(status, key, record) ==
    [k \in DOMAIN status \cup {key} |-> IF k = key THEN record ELSE status[k]]

Has(status, key, kind) == key \in DOMAIN status /\ status[key].kind = kind

\* ButtonShown with the button shown whatever the record.
ButtonShown_Always(status, key) == TRUE

\* Lines 893 and 607: the retry button is shown unless the record is a
\* success.
ButtonShown(status, key) == ~Has(status, key, "success")

\* TryFrom with the loop going on after a success.
RECURSIVE TryFrom_NoBreak(_, _, _, _, _, _)
TryFrom_NoBreak(alts, i, skip, k, out, searched) ==
    IF i > Len(alts)
    THEN [searched |-> searched, record |-> Record("tried")]
    ELSE IF alts[i] = "" \/ alts[i] \in skip
         THEN TryFrom_NoBreak(alts, i + 1, skip, k, out, searched)
         ELSE LET ebay_data_retry == IF Len(searched) + 1 = k THEN out ELSE EmptyOutcome
                  found == ebay_data_retry.current_items # <<>>
                  rest == TryFrom_NoBreak(alts, i + 1, skip, k, out,
                              Append(searched, [query |-> alts[i], found |-> found]))
              IN  IF found
                  THEN [searched |-> rest.searched,
                        record |-> SuccessRecord(alts[i], ebay_data_retry)]
                  ELSE rest

\* TryFrom giving up at the first search without listings.
RECURSIVE TryFrom_GiveUp(_, _, _, _, _, _)
TryFrom_GiveUp(alts, i, skip, k, out, searched) ==
    IF i > Len(alts)
    THEN [searched |-> searched, record |-> Record("tried")]
    ELSE IF alts[i] = "" \/ alts[i] \in skip
         THEN TryFrom_GiveUp(alts, i + 1, skip, k, out, searched)
         ELSE LET ebay_data_retry == IF Len(searched) + 1 = k THEN out ELSE EmptyOutcome
                  found == ebay_data_retry.current_items # <<>>
                  log == Append(searched, [query |-> alts[i], found |-> found])
              IN  IF found
                  THEN [searched |-> log,
                        record |-> SuccessRecord(alts[i], ebay_data_retry)]
                  ELSE [searched |-> log, record |-> Record("tried")]

\* TryFrom without the comparison with the original query.
RECURSIVE TryFrom_NoSkip(_, _, _, _, _, _)
TryFrom_NoSkip(alts, i, skip, k, out, searched) ==
    IF i > Len(alts)
    THEN [searched |-> searched, record |-> Record("tried")]
    ELSE IF alts[i] = ""
         THEN TryFrom_NoSkip(alts, i + 1, skip, k, out, searched)
         ELSE LET ebay_data_retry == IF Len(searched) + 1 = k THEN out ELSE EmptyOutcome
                  found == ebay_data_retry.current_items # <<>>
                  log == Append(searched, [query |-> alts[i], found |-> found])
              IN  IF found
                  THEN [searched |-> log,
                        record |-> SuccessRecord(alts[i], ebay_data_retry)]
                  ELSE TryFrom_NoSkip(alts, i + 1, skip, k, out, log)

\* Lines 917-949 and 701-732: the loop over the alternatives from position
\* i.  skip holds the original query of a failed item; the k-th search of
\* the loop returns out, every other one returns nothing.  searched lists
\* the searches made, record is what the loop stores.
RECURSIVE TryFrom(_, _, _, _, _, _)
TryFrom(alts, i, skip, k, out, searched) ==
    IF i > Len(alts)
    THEN [searched |-> searched, record |-> Record("tried")]
    ELSE IF alts[i] = "" \/ alts[i] \in skip
         THEN TryFrom(alts, i + 1, skip, k, out, searched)
         ELSE LET ebay_data_retry == IF Len(searched) + 1 = k THEN out ELSE EmptyOutcome
                  found == ebay_data_retry.current_items # <<>>
                  log == Append(searched, [query |-> alts[i], found |-> found])
              IN  IF found
                  THEN [searched |-> log,
                        record |-> SuccessRecord(alts[i], ebay_data_retry)]
                  ELSE TryFrom(alts, i + 1, skip, k, out, log)

\* ---------------------------------------------------- the steps of a run
Images == {1, 2}

\* item.get("query_text", "") of the detected items.
DetectedTexts == {"", " ", "a"}

DetectedLists == UNION {[1..n -> DetectedTexts] : n \in 0..MaxDetected}

\* --------------------------------------------------------- the vision model
\* A text is a sequence of characters.  " " stands for any whitespace.  A
\* JSON array is written "[", one character for each of its objects ("e"
\* for query_text "", "w" for " ", "a" for "a"), "]"; "{" "}" is a JSON
\* object; "x" is text that is no JSON.
VisionModelCount == 5              \* len(model_names) of the analysis

\* The three backquotes of a code fence, each written "#".
Fence == <<"#", "#", "#">>

JsonFence == Fence \o <<"j", "s", "o", "n">>

ItemChars == {"e", "w", "a"}

QueryTextOf(c) == CASE c = "e" -> "" [] c = "w" -> " " [] c = "a" -> "a"

CharOf(query) == CASE query = "" -> "e" [] query = " " -> "w" [] query = "a" -> "a"

\* The array of the objects with the given query texts, as text.
ArrayText(items) ==
    <<"[">> \o [i \in 1..Len(items) |-> CharOf(items[i])] \o <<"]">>

RECURSIVE LStrip(_)
LStrip(text) ==
    IF text # <<>> /\ Head(text) = " " THEN LStrip(Tail(text)) ELSE text

RECURSIVE RStrip(_)
RStrip(text) ==
    IF text # <<>> /\ text[Len(text)] = " "
    THEN RStrip(SubSeq(text, 1, Len(text) - 1))
    ELSE text

\* text.strip()
Strip(text) == RStrip(LStrip(text))

\* text.startswith(prefix), text.endswith(suffix)
StartsWith(text, prefix) ==
    Len(text) >= Len(prefix) /\ SubSeq(text, 1, Len(prefix)) = prefix

EndsWith(text, suffix) ==
    Len(text) >= Len(suffix)
        /\ SubSeq(text, Len(text) - Len(suffix) + 1, Len(text)) = suffix

\* text[n:], text[:-n]
Drop(text, n) == SubSeq(text, n + 1, Len(text))

DropLast(text, n) == SubSeq(text, 1, Len(text) - n)

\* Unfence taking off the fences but not the json tag.
Unfence_TagLeft(text) ==
    LET stripped == Strip(text)
        opened == IF StartsWith(stripped, Fence) THEN Drop(stripped, 3) ELSE stripped
        closed == IF EndsWith(opened, Fence) THEN DropLast(opened, 3) ELSE opened
    IN  Strip(closed)

\* Lines 416-427 (and 499-509, 676-684): the text without its code fence.
Unfence(text) ==
    LET stripped == Strip(text)
        untagged == IF StartsWith(stripped, JsonFence) THEN Drop(stripped, 7) ELSE stripped
        opened == IF StartsWith(untagged, Fence) THEN Drop(untagged, 3) ELSE untagged
        closed == IF EndsWith(opened, Fence) THEN DropLast(opened, 3) ELSE opened
    IN  Strip(closed)

\* JsonLoads taking a single object for an array of one.
JsonLoads_Lenient(text) ==
    LET t == Strip(text)
    IN  IF Len(t) >= 2 /\ t[1] = "[" /\ t[Len(t)] = "]"
           /\ \A i \in 2..(Len(t) - 1) : t[i] \in ItemChars
        THEN [kind |-> "list", items |-> [i \in 1..(Len(t) - 2) |-> QueryTextOf(t[i + 1])]]
        ELSE IF t = <<"{", "}">>
             THEN [kind |-> "list", items |-> <<"a">>]
             ELSE [kind |-> "badjson", items |-> <<>>]

\* json.loads(text) and isinstance(items, list): "list" with the query
\* texts of the objects, "notlist" for other JSON, "badjson" when
\* JSONDecodeError is raised.  Whitespace around the value is accepted.
JsonLoads(text) ==
    LET t == Strip(text)
    IN  IF Len(t) >= 2 /\ t[1] = "[" /\ t[Len(t)] = "]"
           /\ \A i \in 2..(Len(t) - 1) : t[i] \in ItemChars
        THEN [kind |-> "list", items |-> [i \in 1..(Len(t) - 2) |-> QueryTextOf(t[i + 1])]]
        ELSE IF t = <<"{", "}">>
             THEN [kind |-> "notlist", items |-> <<>>]
             ELSE [kind |-> "badjson", items |-> <<>>]

\* The array in a code fence, with and without the json tag, with line
\* breaks inside and whitespace around it.
Fenced(text) ==
    { JsonFence \o <<" ">> \o text \o <<" ">> \o Fence,
      Fence \o <<" ">> \o text \o <<" ">> \o Fence,
      JsonFence \o text \o Fence,
      Fence \o text \o Fence,
      <<" ">> \o JsonFence \o <<" ">> \o text \o <<" ">> \o Fence \o <<" ", " ">> }

\* What a model can send for a payload: the payload bare, in a fence, with
\* whitespace around it, with an opening fence only.
Wrapped(text) ==
    {text, <<" ">> \o text \o <<" ">>, JsonFence \o text} \cup Fenced(text)

\* The fenced payload after a sentence of the model.
Prefixed(text) == <<"x", " ">> \o Fence \o text \o Fence

\* Payloads that are arrays of objects, and payloads that are not.
ArrayPayloads == {ArrayText(l) : l \in DetectedLists}

OtherPayloads == {<<"{", "}">>, <<"x">>, <<>>}

\* What a model can send as response.text.
VisionTexts ==
    UNION {Wrapped(t) \cup {Prefixed(t)} : t \in ArrayPayloads \cup OtherPayloads}

\* One model call of the analysis: "exc" generate_content raised, "text"
\* a response with the given text, "notext" a response whose .text raises.
Raised == [kind |-> "exc", text |-> <<>>]

NoText == [kind |-> "notext", text |-> <<>>]

Sent(text) == [kind |-> "text", text |-> text]

AllRaise == [m \in 1..VisionModelCount |-> Raised]

\* The secret and the answers of the models, in the order of model_names, up
\* to the first that does not raise.
VisionInputs ==
    {[api_key |-> FALSE, answers |-> <<>>], [api_key |-> TRUE, answers |-> AllRaise]}
        \cup {[api_key |-> TRUE, answers |-> pre \o <<a>>] :
                pre \in {<<>>, <<Raised>>, SubSeq(AllRaise, 1, VisionModelCount - 1)},
                a \in {NoText} \cup {Sent(t) : t \in VisionTexts}}

\* Lines 392-399: the position of the first model that answers, 0 if none.
RECURSIVE FirstResponse(_, _)
FirstResponse(answers, m) ==
    IF m > Len(answers) \/ m > VisionModelCount
    THEN 0
    ELSE IF answers[m].kind # "exc" THEN m ELSE FirstResponse(answers, m + 1)

\* analyze_image_with_gemini: the query texts of the items it returns.
AnalyzeImageWithGemini(in) ==
    IF ~in.api_key
    THEN <<>>
    ELSE LET m == FirstResponse(in.answers, 1)
         IN  IF m = 0 \/ in.answers[m].kind = "notext"
             THEN <<>>
             ELSE LET items == JsonLoads(Unfence(in.answers[m].text))
                  IN  IF items.kind = "list" THEN items.items ELSE <<>>

\* What st.button returns for the button of the given kind and key: True
\* only in the run its own click started.
Pressed(kind, key) == clicked = Interaction(kind, key)

\* stats.get(key) as a condition: present and not 0.
Truthy(stats, key) == key \in DOMAIN stats /\ stats[key] # 0

\* f"{stats[key]:.2f} EUR" when the statistic is truthy, else "N/A".
Shown(stats, key) ==
    IF Truthy(stats, key)
    THEN [kind |-> "eur", v |-> stats[key]]
    ELSE [kind |-> "N/A", v |-> 0]

\* Lines 759-798: the result entry of one priced query; Link 0 is "".
Entry(query, data) ==
    IF data.current_items # <<>>
    THEN [Artikel |-> query,
          min_shown |-> Shown(data.stats, "min_current_price"),
          median_shown |-> Shown(data.stats, "median_current_price"),
          Link |-> ItemWebUrl(data.current_items[1]),
          Preis |-> IF Truthy(data.stats, "min_current_price")
                    THEN data.stats["min_current_price"] ELSE 0,
          no_results |-> FALSE]
    ELSE [Artikel |-> query,
          min_shown |-> [kind |-> "Keine Ergebnisse", v |-> 0],
          median_shown |-> [kind |-> "Keine Ergebnisse", v |-> 0],
          Link |-> 0,
          Preis |-> 0,
          no_results |-> TRUE]

IsNoData(r) == r.no_results

\* results_no_data
NoData(entries) == SelectSeq(entries, IsNoData)

\* ', '.join(alternative_queries[:3]) raises TypeError when one of the
\* three is no string.
JoinRaises(alternative_queries) ==
    \E i \in 1..Min(Len(alternative_queries), MaxTerms) :
        alternative_queries[i] = NonText

\* Lines 910-949 (626-732 when inline): every way the resolver and the
\* searches of one cycle can go: the candidates offered, the searches made
\* and the record stored.  The flag was taken away before (lines 901 and
\* 615), so a TypeError of the join leaves {'processing': False} for a
\* failed item; inline it is caught (line 733) and tried is stored.
CycleRuns(skip, inline) ==
    UNION {
      LET alternative_queries ==
              IF inline
              THEN (IF in.api_key THEN InlineTermsFrom(in.answers, 1) ELSE <<>>)
              ELSE GetAlternativeSearchTerms(in)
      IN  IF JoinRaises(alternative_queries)
          THEN {[record |-> Record(IF inline THEN "tried" ELSE "not_processing"),
                 offered |-> alternative_queries,
                 searched |-> <<>>,
                 ebay_data_retry |-> EmptyOutcome]}
          ELSE { LET t == TryFrom(alternative_queries, 1, skip, k, out, <<>>)
                 IN  [record |-> t.record,
                      offered |-> alternative_queries,
                      searched |-> t.searched,
                      ebay_data_retry |->
                          IF k > 0 /\ Len(t.searched) = k THEN out ELSE EmptyOutcome] :
                 k \in 0..Len(alternative_queries), out \in PricedOutcomes }
      : in \in ResolverInputs }

\* The cycles of a failed item, by its original query.
FailedItemRuns == [original \in DetectedTexts |-> CycleRuns({original}, FALSE)]

\* The cycles of the nothing-detected case.
NoItemRuns == CycleRuns({}, TRUE)

\* CycleOutcomes without the test of the stored image bytes.
CycleOutcomes_NoImageTest(key, original, inline) ==
    {[record |-> c.record,
      log |-> [ran |-> TRUE, key |-> key, original |-> original,
               resolver_calls |-> 1,
               offered |-> c.offered,
               searched |-> c.searched,
               ebay_data_retry |-> c.ebay_data_retry]] :
     c \in IF inline THEN NoItemRuns ELSE FailedItemRuns[original]}

\* Lines 900-953 (614-739 when inline) once the processing flag is found
\* set: every record the cycle can store, with the log of what it did.
CycleOutcomes(key, original, inline) ==
    IF image_bytes <= 0
    THEN {[record |-> Record("tried"),
           log |-> [ran |-> TRUE, key |-> key, original |-> original,
                    resolver_calls |-> 0, offered |-> <<>>, searched |-> <<>>,
                    ebay_data_retry |-> EmptyOutcome]]}
    ELSE {[record |-> c.record,
           log |-> [ran |-> TRUE, key |-> key, original |-> original,
                    resolver_calls |-> 1,
                    offered |-> c.offered,
                    searched |-> c.searched,
                    ebay_data_retry |-> c.ebay_data_retry]] :
          c \in IF inline THEN NoItemRuns ELSE FailedItemRuns[original]}

\* st.rerun(): the run is abandoned and the script starts again.
Rerun ==
    /\ apc' = "script"
    /\ clicked' = Interaction("none", NoKey)

\* The user clicks "Artikel analysieren".
ClickAnalyze ==
    /\ apc = "idle"
    /\ image_to_process # 0
    /\ apc' = "script"
    /\ clicked' = Interaction("analyze", NoKey)
    /\ UNCHANGED <<image_to_process, image_bytes, retry_status, detected_items,
                   idx, ebay_data, results, r_idx, rendered, cycle>>
    /\ UNCHANGED vars
    /\ UNCHANGED vision

\* The user clicks a retry button that is on the page.
ClickRetry ==
    /\ apc = "idle"
    /\ \E key \in rendered :
          clicked' = Interaction("retry", key)
    /\ apc' = "script"
    /\ UNCHANGED <<image_to_process, image_bytes, retry_status, detected_items,
                   idx, ebay_data, results, r_idx, rendered, cycle>>
    /\ UNCHANGED vars
    /\ UNCHANGED vision

\* Lines 544-559: the user takes or uploads another image, or removes it;
\* the run this causes renders no result.
Upload ==
    /\ apc = "idle"
    /\ \E img \in Images \cup {0} :
          /\ img # image_to_process
          /\ image_to_process' = img
    /\ rendered' = {}
    /\ UNCHANGED <<apc, clicked, image_bytes, retry_status, detected_items,
                   idx, ebay_data, results, r_idx, cycle>>
    /\ UNCHANGED vars
    /\ UNCHANGED vision

\* Lines 561-566: the script up to the analyze button.
Script ==
    /\ apc = "script"
    /\ apc' = IF image_to_process # 0 /\ Pressed("analyze", NoKey)
              THEN "analyze" ELSE "idle"
    /\ ebay_data' = EmptyOutcome
    /\ detected_items' = <<>>
    /\ idx' = 1
    /\ results' = <<>>
    /\ r_idx' = 0
    /\ rendered' = {}
    /\ cycle' = NoCycle
    /\ UNCHANGED <<clicked, image_to_process, image_bytes, retry_status>>
    /\ UNCHANGED vars
    /\ UNCHANGED vision

\* Lines 567-577 and 741-747: the image is read, analyzed and stored.
Analyze ==
    /\ apc = "analyze"
    /\ \E bytes \in {image_to_process, 0} : image_bytes' = bytes
    /\ \E items \in DetectedLists :
          /\ detected_items' = items
          /\ apc' = IF items = <<>> THEN "noitem" ELSE "price"
    /\ UNCHANGED <<clicked, image_to_process, retry_status, idx, ebay_data,
                   results, r_idx, rendered, cycle>>
    /\ UNCHANGED vars
    /\ UNCHANGED vision

\* Lines 749-800: one turn of the pricing loop.
PriceItem ==
    /\ apc = "price"
    /\ LET query == detected_items[idx]
       IN  IF query = ""
           THEN UNCHANGED <<ebay_data, results>>
           ELSE \E data \in SearchOutcomes :
                   /\ ebay_data' = data
                   /\ results' = Append(results, Entry(query, data))
    /\ idx' = idx + 1
    /\ apc' = IF idx = Len(detected_items) THEN "show" ELSE "price"
    /\ UNCHANGED <<clicked, image_to_process, image_bytes, retry_status,
                   detected_items, r_idx, rendered, cycle>>
    /\ UNCHANGED vars
    /\ UNCHANGED vision

\* Lines 802-866 and 956-957: the tables; the retry loop follows when an
\* entry has no results.
ShowResults ==
    /\ apc = "show"
    /\ apc' = IF NoData(results) # <<>> THEN "retry" ELSE "idle"
    /\ r_idx' = 0
    /\ UNCHANGED <<clicked, image_to_process, image_bytes, retry_status,
                   detected_items, idx, ebay_data, results, rendered, cycle>>
    /\ UNCHANGED vars
    /\ UNCHANGED vision

\* The end of one turn of the loop over results_no_data.
NextNoData ==
    /\ IF r_idx + 1 = Len(NoData(results))
       THEN apc' = "idle" /\ r_idx' = 0
       ELSE apc' = "retry" /\ r_idx' = r_idx + 1
    /\ clicked' = clicked

\* Lines 867-955: one turn of the loop over results_no_data: the stored
\* record, the retry button, and the retry cycle when the flag is set.
RetryItem ==
    /\ apc = "retry"
    /\ LET r == NoData(results)[r_idx + 1]
           retry_key == RetryKey(r_idx, r.Artikel)
           button == ButtonShown(retry_status, retry_key)
       IN  /\ rendered' = IF button THEN rendered \cup {retry_key} ELSE rendered
           /\ IF button /\ Pressed("retry", retry_key)
                 THEN /\ retry_status' = Store(retry_status, retry_key, Record("processing"))
                      /\ cycle' = NoCycle
                      /\ r_idx' = r_idx
                      /\ Rerun
                 ELSE IF Has(retry_status, retry_key, "processing")
                      THEN \E c \in CycleOutcomes(retry_key, r.Artikel, FALSE) :
                              /\ retry_status' = Store(retry_status, retry_key, c.record)
                              /\ cycle' = c.log
                              /\ CASE c.record.kind = "success" ->
                                        r_idx' = r_idx /\ Rerun
                                   [] c.record.kind = "not_processing" ->
                                        \* the TypeError ends the run
                                        /\ r_idx' = r_idx
                                        /\ apc' = "idle"
                                        /\ clicked' = clicked
                                   [] OTHER -> NextNoData
                      ELSE /\ retry_status' = retry_status
                           /\ cycle' = NoCycle
                           /\ NextNoData
    /\ UNCHANGED <<image_to_process, image_bytes, detected_items, idx, ebay_data, results>>
    /\ UNCHANGED vars
    /\ UNCHANGED vision

\* Lines 577-739: nothing was detected: the stored record, the retry button
\* and the retry cycle when the flag is set.
NoItem ==
    /\ apc = "noitem"
    /\ LET button == ButtonShown(retry_status, NoItemKey)
       IN  /\ rendered' = IF button THEN rendered \cup {NoItemKey} ELSE rendered
           /\ IF button /\ Pressed("retry", NoItemKey)
                 THEN /\ retry_status' = Store(retry_status, NoItemKey, Record("processing"))
                      /\ cycle' = NoCycle
                      /\ Rerun
                 ELSE IF Has(retry_status, NoItemKey, "processing")
                      THEN \E c \in CycleOutcomes(NoItemKey, "", TRUE) :
                              /\ retry_status' = Store(retry_status, NoItemKey, c.record)
                              /\ cycle' = c.log
                              /\ IF c.record.kind = "success"
                                 THEN Rerun
                                 ELSE apc' = "idle" /\ clicked' = clicked
                      ELSE /\ retry_status' = retry_status
                           /\ cycle' = NoCycle
                           /\ apc' = "idle"
                           /\ clicked' = clicked
    /\ UNCHANGED <<image_to_process, image_bytes, detected_items, idx, ebay_data,
                   results, r_idx>>
    /\ UNCHANGED vars
    /\ UNCHANGED vision

\* search_ebay_items as the script calls it, before a call.
SearchIdle ==
    /\ pc = "token"
    /\ max_results = 50
    /\ oauth_token = FALSE
    /\ calls = <<>>
    /\ response = NoResponse
    /\ current_items = <<>>
    /\ result = <<>>

InitScript == SearchIdle /\ ScriptIdle

\* The steps of a run, which the framework carries through to its end.
RunSteps ==
    \/ Script
    \/ Analyze
    \/ PriceItem
    \/ ShowResults
    \/ RetryItem
    \/ NoItem

\* The script under Streamlit's buttons: a button returns True only in the
\* run its own click started, and only a button on the page can be clicked.
NextStreamlit ==
    \/ ClickAnalyze
    \/ ClickRetry
    \/ Upload
    \/ Script
    \/ Analyze
    \/ PriceItem
    \/ ShowResults
    \/ RetryItem
    \/ NoItem

SpecStreamlit == InitScript /\ [][NextStreamlit]_allvars /\ WF_allvars(RunSteps)

\* ------------------------------------------- the pricing loop by requests
\* Lines 749-800 with every search of the loop taken request by request.
\* The other answers a request of the script can get.
ScriptResponses == ScriptAnswers \ {NoResponse}

\* A run that has detected items and comes to the pricing loop.
InitPricing ==
    /\ pc = "done"
    /\ max_results = 50
    /\ oauth_token = FALSE
    /\ calls = <<>>
    /\ response = NoResponse
    /\ current_items = <<>>
    /\ result = EmptyOutcome
    /\ apc = "price"
    /\ clicked = Interaction("analyze", NoKey)
    /\ image_to_process = 1
    /\ image_bytes = 1
    /\ retry_status = EmptyDict
    /\ detected_items \in DetectedLists \ {<<>>}
    /\ idx = 1
    /\ ebay_data = EmptyOutcome
    /\ results = <<>>
    /\ r_idx = 0
    /\ rendered = {}
    /\ cycle = NoCycle
    /\ vision = NoVision

\* The end of one turn of the pricing loop.
NextDetected ==
    /\ idx' = idx + 1
    /\ apc' = IF idx = Len(detected_items) THEN "show" ELSE "price"

\* Lines 750-752: an item without query text.
SkipItem ==
    /\ apc = "price"
    /\ detected_items[idx] = ""
    /\ NextDetected
    /\ UNCHANGED <<clicked, image_to_process, image_bytes, retry_status,
                   detected_items, ebay_data, results, r_idx, rendered, cycle>>
    /\ UNCHANGED vars
    /\ UNCHANGED vision

\* CallSearch not waiting for the search that is running.
CallSearch_Overlapping ==
    /\ apc \in {"price", "search"}
    /\ detected_items[idx] # ""
    /\ apc' = "search"
    /\ pc' = "token"
    /\ max_results' = 50
    /\ oauth_token' = FALSE
    /\ calls' = <<>>
    /\ response' = NoResponse
    /\ current_items' = <<>>
    /\ result' = <<>>
    /\ UNCHANGED <<clicked, image_to_process, image_bytes, retry_status,
                   detected_items, idx, ebay_data, results, r_idx, rendered, cycle>>
    /\ UNCHANGED vision

\* Line 756: search_ebay_items(query, max_results=50) is entered.
CallSearch ==
    /\ apc = "price"
    /\ detected_items[idx] # ""
    /\ apc' = "search"
    /\ pc' = "token"
    /\ max_results' = 50
    /\ oauth_token' = FALSE
    /\ calls' = <<>>
    /\ response' = NoResponse
    /\ current_items' = <<>>
    /\ result' = <<>>
    /\ UNCHANGED <<clicked, image_to_process, image_bytes, retry_status,
                   detected_items, idx, ebay_data, results, r_idx, rendered, cycle>>
    /\ UNCHANGED vision

ItemTier1 == Tier1From(ScriptResponses)

ItemTier2 == Tier2From(ScriptResponses)

ItemTier3 == Tier3From(ScriptResponses)

\* Lines 756-800: the call has returned and the entry is made.
ReturnSearch ==
    /\ apc = "search"
    /\ pc = "done"
    /\ ebay_data' = result
    /\ results' = Append(results, Entry(detected_items[idx], result))
    /\ NextDetected
    /\ UNCHANGED <<clicked, image_to_process, image_bytes, retry_status,
                   detected_items, r_idx, rendered, cycle>>
    /\ UNCHANGED vars
    /\ UNCHANGED vision

NextPricing ==
    \/ SkipItem
    \/ CallSearch
    \/ GetToken
    \/ ItemTier1
    \/ ItemTier2
    \/ Normalize
    \/ ItemTier3
    \/ Stats
    \/ ReturnSearch

SpecPricing == InitPricing /\ [][NextPricing]_allvars

\* ---------------------------------------------------------- the retry cycle
\* The records a session can hold for a key when a run comes to it.
StoredRecords ==
    {Record("processing"), Record("not_processing"), Record("tried"),
     [kind |-> "success", query |-> "b", min_price |-> 2, median_price |-> 2, link |-> 1]}

\* A run with the analyze button true that has come to the retry code of
\* the nothing-detected case or of one item without results, in a session
\* whose retry_status holds no record or any record for its key.
InitRetry ==
    /\ SearchIdle
    /\ clicked = Interaction("analyze", NoKey)
    /\ image_to_process \in Images
    /\ image_bytes \in {image_to_process, 0}
    /\ \E items \in {<<>>} \cup {<<q>> : q \in DetectedTexts \ {""}} :
          /\ detected_items = items
          /\ apc = IF items = <<>> THEN "noitem" ELSE "retry"
          /\ idx = Len(items) + 1
          /\ results = [i \in 1..Len(items) |-> Entry(items[i], EmptyOutcome)]
          /\ LET key == IF items = <<>> THEN NoItemKey ELSE RetryKey(0, items[1])
             IN  retry_status \in {EmptyDict} \cup
                     {Store(EmptyDict, key, rec) : rec \in StoredRecords}
    /\ ebay_data = EmptyOutcome
    /\ r_idx = 0
    /\ rendered = {}
    /\ cycle = NoCycle
    /\ vision = NoVision

\* --------------------------------------------------------------- the analysis
\* A run that sends its image to the vision models.
InitVision ==
    /\ SearchIdle
    /\ apc = "analyze"
    /\ clicked = Interaction("analyze", NoKey)
    /\ image_to_process = 1
    /\ image_bytes = -1
    /\ retry_status = EmptyDict
    /\ detected_items = <<>>
    /\ idx = 1
    /\ ebay_data = EmptyOutcome
    /\ results = <<>>
    /\ r_idx = 0
    /\ rendered = {}
    /\ cycle = NoCycle
    /\ vision \in VisionInputs

\* Lines 567-577: the image is read, stored and analyzed; what the models
\* answer is in vision.
AnalyzeImage ==
    /\ apc = "analyze"
    /\ vision # NoVision
    /\ \E bytes \in {image_to_process, 0} : image_bytes' = bytes
    /\ detected_items' = AnalyzeImageWithGemini(vision)
    /\ apc' = IF detected_items' = <<>> THEN "noitem" ELSE "price"
    /\ UNCHANGED <<clicked, image_to_process, retry_status, idx, ebay_data,
                   results, r_idx, rendered, cycle, vision>>
    /\ UNCHANGED vars

SpecVision == InitVision /\ [][AnalyzeImage]_allvars

NextRetry ==
    \/ RetryItem
    \/ NoItem

SpecRetry == InitRetry /\ [][NextRetry]_allvars

\* The session after such a run: the user clicks the retry buttons on the
\* page, and each click re-executes the script.
NextSession ==
    \/ RetryItem
    \/ NoItem
    \/ ClickRetry
    \/ Script

SessionSteps ==
    \/ RetryItem
    \/ NoItem
    \/ Script

SpecSession == InitRetry /\ [][NextSession]_allvars /\ WF_allvars(SessionSteps)

\* ------------------------------------------- the retry code with more records
\* The keys of a run with nothing detected, and of a run with two failed
\* items.
SessionKeys == {NoItemKey, RetryKey(0, "a"), RetryKey(1, " ")}

\* The dictionaries of a session over these keys: for each key no record or
\* any record.
SessionStatus ==
    UNION {[keys -> StoredRecords] : keys \in SUBSET SessionKeys}

\* A run with the analyze button true that has come to the retry code, of
\* the nothing-detected case or of two items without results, in a session
\* whose retry_status holds records for several keys.
InitRecords ==
    /\ SearchIdle
    /\ clicked = Interaction("analyze", NoKey)
    /\ image_to_process \in Images
    /\ image_bytes \in {image_to_process, 0}
    /\ \E items \in {<<>>, <<"a", " ">>} :
          /\ detected_items = items
          /\ apc = IF items = <<>> THEN "noitem" ELSE "retry"
          /\ idx = Len(items) + 1
          /\ results = [i \in 1..Len(items) |-> Entry(items[i], EmptyOutcome)]
    /\ retry_status \in SessionStatus
    /\ ebay_data = EmptyOutcome
    /\ r_idx = 0
    /\ rendered = {}
    /\ cycle = NoCycle
    /\ vision = NoVision

SpecRecords == InitRecords /\ [][NextRetry]_allvars

\* ------------------------------------------------- a session with two images
\* The session after the analysis of image 1, whose retry cycle has left a
\* record for the nothing-detected key or for the first failed item; the
\* page is idle and the user goes on: another image, another analysis.
InitEarlierImage ==
    /\ SearchIdle
    /\ vision = NoVision
    /\ apc = "idle"
    /\ clicked = Interaction("none", NoKey)
    /\ image_to_process = 1
    /\ image_bytes = 1
    /\ retry_status \in
          {Store(EmptyDict, key, rec) :
              key \in {NoItemKey, RetryKey(0, "a")},
              rec \in StoredRecords \ {Record("processing"), Record("not_processing")}}
    /\ detected_items = <<>>
    /\ idx = 1
    /\ ebay_data = EmptyOutcome
    /\ results = <<>>
    /\ r_idx = 0
    /\ rendered = {}
    /\ cycle = NoCycle

SpecImages == InitEarlierImage /\ [][NextStreamlit]_allvars /\ WF_allvars(RunSteps)

\* ================================================================ the claims
Returned == pc = "done"

\* The listings handed to the caller, <<>> before the return.
ReturnedItems == IF Returned THEN result.current_items ELSE <<>>

\* The raw listing of the response that carries the given itemId.
RawOf(id) == response.items[id]

HasRaw(id) == id \in DOMAIN response.items

EmptySuccess(c) == c.outcome = "ok" /\ ~c.has_items

\* C1: the tiers are issued in the order filtered with cap
\* min(max_results, 200), unfiltered with the same cap, unfiltered with cap
\* 20; tier 2 only after tier 1 returned zero raw listings, tier 3 only after
\* tier 2 also returned zero raw listings, and no tier after a tier that
\* returned at least one raw listing.
C1_TieredFallbackOrder ==
    \A i \in DOMAIN calls :
        LET c == calls[i]
        IN  /\ \A j \in 1..(i - 1) : calls[j].tier < c.tier
            /\ c.tier = 1 =>
                  c.filtered /\ c.limit = Min(max_results, 200)
            /\ c.tier = 2 =>
                  /\ ~c.filtered /\ c.limit = Min(max_results, 200)
                  /\ \E j \in 1..(i - 1) : calls[j].tier = 1 /\ EmptySuccess(calls[j])
            /\ c.tier = 3 =>
                  /\ ~c.filtered /\ c.limit = 20
                  /\ \E j \in 1..(i - 1) : calls[j].tier = 2 /\ EmptySuccess(calls[j])
            /\ \A j \in 1..(i - 1) : ~calls[j].has_items

\* C2: a later tier is issued only after its predecessor completed
\* successfully with an empty result; after a tier whose call ended in a
\* non-200 status no further tier is issued.
C2_OnlyAfterEmptyPredecessor ==
    \A i \in DOMAIN calls :
        i < Len(calls) => EmptySuccess(calls[i]) /\ calls[i].outcome # "err"

\* The search failed: no token, or every issued tier ended in an exception
\* or a non-200 status.
SearchFailed ==
    /\ Returned
    /\ \/ ~oauth_token
       \/ calls # <<>> /\ \A i \in DOMAIN calls : calls[i].outcome \in {"exc", "err"}

\* What a successful search that found no listing returns (NO_RESULTS).
NoResultsOutcome == Outcome(<<>>)

\* C3: the outcome of a failed search differs from the outcome of a
\* successful search that returned zero listings.
C3_FailureDistinctFromEmpty ==
    SearchFailed => result # NoResultsOutcome

\* C4: a raw listing whose price is absent or non-numeric (no price object,
\* no value, null, non-numeric text) never appears among the listings, neither
\* while they are collected nor in the returned current_items.
C4_UnpricedListingDiscarded ==
    \A id \in DOMAIN response.items :
        RawOf(id).price.kind # "num" =>
            /\ \A k \in DOMAIN current_items : current_items[k].itemId # id
            /\ \A k \in DOMAIN ReturnedItems : ReturnedItems[k].itemId # id

\* C5: when a tier returned a listing with an unparseable price (text, null
\* or missing value), every other listing of that tier with a numeric price
\* is in the returned current_items.  Stated for responses whose shipping
\* costs are all absent, so that only the price decides.
C5_BadPriceNotFatal ==
    ( /\ Returned
      /\ \A id \in DOMAIN response.items : RawOf(id).ship.kind = "noopts"
      /\ \E id \in DOMAIN response.items :
            RawOf(id).price.kind \in {"text", "null", "novalue"} )
    => \A id \in DOMAIN response.items :
          RawOf(id).price.kind = "num" =>
             \E k \in DOMAIN ReturnedItems : ReturnedItems[k].itemId = id

\* C6: a retained listing of a raw listing with a numeric price has
\* price_with_shipping = price + shipping_cost, with price the upstream
\* price, shipping_cost the first shipping option's cost when that is
\* numeric, and 0 when there is no shipping option.
C6_TotalIsPricePlusShipping ==
    \A k \in DOMAIN ReturnedItems :
        LET l == ReturnedItems[k]
        IN  /\ HasRaw(l.itemId)
            /\ RawOf(l.itemId).price.kind = "num" =>
                  /\ l.price = RawOf(l.itemId).price.v
                  /\ l.price_with_shipping = l.price + l.shipping_cost
                  /\ RawOf(l.itemId).ship.kind = "num" =>
                        l.shipping_cost = RawOf(l.itemId).ship.v
                  /\ RawOf(l.itemId).ship.kind = "noopts" =>
                        l.shipping_cost = 0

\* C6 witness: a returned listing with a numeric price and a numeric,
\* non-zero shipping cost next to one without shipping options.
C6_Witness ==
    /\ Len(ReturnedItems) = 2
    /\ \E k \in DOMAIN ReturnedItems :
          /\ RawOf(ReturnedItems[k].itemId).price.kind = "num"
          /\ RawOf(ReturnedItems[k].itemId).ship = [kind |-> "num", v |-> 2]
    /\ \E k \in DOMAIN ReturnedItems :
          /\ RawOf(ReturnedItems[k].itemId).price.kind = "num"
          /\ RawOf(ReturnedItems[k].itemId).ship.kind = "noopts"

\* C7: a listing with a numeric price and a missing or malformed shipping
\* cost is retained with shipping_cost = 0.  Stated for responses whose
\* prices are all numeric, so that only the shipping cost decides.
C7_BadShippingIsZero ==
    ( /\ Returned
      /\ \A id \in DOMAIN response.items : RawOf(id).price.kind = "num" )
    => \A id \in DOMAIN response.items :
          RawOf(id).ship.kind \in {"noopts", "noobj", "novalue", "null", "text"} =>
             \E k \in DOMAIN ReturnedItems :
                /\ ReturnedItems[k].itemId = id
                /\ ReturnedItems[k].shipping_cost = 0

\* C8: every returned listing has price_with_shipping >= price >= 0.
C8_TotalAtLeastPriceAtLeastZero ==
    \A k \in DOMAIN ReturnedItems :
        /\ ReturnedItems[k].price_with_shipping >= ReturnedItems[k].price
        /\ ReturnedItems[k].price >= 0

StatKeys ==
    {"min_current_price", "median_current_price", "max_current_price", "count_current"}

\* C9: the returned stats holds min, median, max and count exactly when
\* current_items is non-empty, and is the empty dictionary otherwise.
C9_StatsIffListings ==
    Returned =>
        /\ DOMAIN result.stats \in {{}, StatKeys}
        /\ (DOMAIN result.stats = StatKeys) <=> (result.current_items # <<>>)
        /\ result.current_items = <<>> => result.stats = EmptyDict

\* C9 witness: a search that succeeded, retained nothing and returned
\* through the statistics step.
C9_Witness ==
    /\ Returned
    /\ result.current_items = <<>>
    /\ \E i \in DOMAIN calls : calls[i].tier = 3 /\ calls[i].outcome = "ok"

\* C10: for a non-empty result min <= median <= max, and count_current is
\* the number of returned listings.
C10_StatsOrdered ==
    (Returned /\ result.current_items # <<>>) =>
        /\ result.stats.min_current_price <= result.stats.median_current_price
        /\ result.stats.median_current_price <= result.stats.max_current_price
        /\ result.stats.count_current = Len(result.current_items)

\* C10 witness: two returned listings with different totals.
C10_Witness ==
    /\ Returned
    /\ Len(result.current_items) = 2
    /\ result.current_items[1].price_with_shipping
          < result.current_items[2].price_with_shipping

\* The totals of the returned listings.
Totals == [k \in DOMAIN ReturnedItems |-> ReturnedItems[k].price_with_shipping]

AtMost(v) == Cardinality({k \in DOMAIN Totals : Totals[k] <= v})

AtLeast(v) == Cardinality({k \in DOMAIN Totals : Totals[k] >= v})

\* The standard median of Totals, stated without sorting: for an odd count
\* the total with half of the totals on either side, for an even count the
\* mean of the lower and the upper middle total.
IsMedianOfTotals(m) ==
    LET n == Len(Totals)
    IN  IF n % 2 = 1
        THEN \E k \in DOMAIN Totals :
                /\ Totals[k] = m
                /\ AtMost(m) >= (n + 1) \div 2
                /\ AtLeast(m) >= (n + 1) \div 2
        ELSE \E a, b \in DOMAIN Totals :
                /\ 2 * m = Totals[a] + Totals[b]
                /\ AtMost(Totals[a]) >= n \div 2
                /\ AtLeast(Totals[a]) >= n \div 2 + 1
                /\ AtMost(Totals[b]) >= n \div 2 + 1
                /\ AtLeast(Totals[b]) >= n \div 2

\* The scenario of the specification: listings 12.50 + 3.00 shipping and
\* 9.99 without shipping option, in units of half a cent.
ScenarioOutcome ==
    Outcome(ProcessItems(WithIds(
        << [price |-> [kind |-> "num", v |-> 2500], ship |-> [kind |-> "num", v |-> 600]],
           [price |-> [kind |-> "num", v |-> 1998], ship |-> [kind |-> "noopts", v |-> 0]] >>)).items)

\* C11: for a non-empty result min_current_price is the smallest and
\* max_current_price the largest price_with_shipping of the listings, and
\* median_current_price is the standard median of the price_with_shipping
\* values; 12.50 + 3.00 and 9.99 + 0 give min 9.99, median 12.745, max 15.50,
\* count 2.
C11_StatsOverTotals ==
    /\ (Returned /\ result.current_items # <<>>) =>
          /\ \E k \in DOMAIN Totals : Totals[k] = result.stats.min_current_price
          /\ \A k \in DOMAIN Totals : result.stats.min_current_price <= Totals[k]
          /\ \E k \in DOMAIN Totals : Totals[k] = result.stats.max_current_price
          /\ \A k \in DOMAIN Totals : Totals[k] <= result.stats.max_current_price
          /\ IsMedianOfTotals(result.stats.median_current_price)
    /\ ScenarioOutcome.stats =
          [min_current_price |-> 1998, median_current_price |-> 2549,
           max_current_price |-> 3100, count_current |-> 2]

\* C11 witness: two returned listings with different totals, one of them
\* with a shipping cost, so that totals and base prices differ.
C11_Witness ==
    /\ Returned
    /\ Len(result.current_items) = 2
    /\ result.current_items[1].price_with_shipping
          # result.current_items[2].price_with_shipping
    /\ \E k \in DOMAIN result.current_items :
          result.current_items[k].shipping_cost # 0

\* C12: the current_items search_ebay_items returns to the script are in
\* ascending order of price_with_shipping; the first one is a cheapest
\* listing, its price_with_shipping is min_current_price, and its URL is
\* the Link of the entry the script makes for the item.
C12_CheapestFirstIsLink ==
    LET items == ebay_data.current_items
    IN  /\ \A i \in 1..(Len(items) - 1) :
              items[i].price_with_shipping <= items[i + 1].price_with_shipping
        /\ items # <<>> =>
              /\ \A i \in 1..Len(items) :
                    items[1].price_with_shipping <= items[i].price_with_shipping
              /\ items[1].price_with_shipping = ebay_data.stats["min_current_price"]
              /\ results # <<>>
              /\ results[Len(results)].Link = ItemWebUrl(items[1])

\* The search returned two listings, the cheaper of which came second.
C12_Witness ==
    /\ Len(ebay_data.current_items) = 2
    /\ ebay_data.current_items[1].itemId = 2
    /\ ebay_data.current_items[1].price_with_shipping
          < ebay_data.current_items[2].price_with_shipping
    /\ results # <<>>
    /\ results[Len(results)].Link = 2

\* C13: when the filtered search returned no raw listing and the unfiltered
\* search returned at least one, the returned listings are the normalized
\* listings of the unfiltered search: no third search is issued and nothing
\* of another tier is returned.
C13_UnfilteredTierOnly ==
    ( /\ Returned
      /\ Len(calls) >= 2
      /\ calls[1].tier = 1 /\ EmptySuccess(calls[1])
      /\ calls[2].tier = 2 /\ calls[2].outcome = "ok" /\ calls[2].has_items )
    => /\ Len(calls) = 2
       /\ ~ProcessItems(response.items).raised =>
             result = Outcome(ProcessItems(response.items).items)

\* A description that is empty or only whitespace.
Blank(query) == query \in {"", " "}

\* C14: for a detected description that is empty or only whitespace no
\* search is made, and the results of the run hold an explicit no-results
\* entry for it (a priced entry shows that a search was made and answered).
C14_BlankIsNoResults ==
    apc = "show" =>
        \A i \in DOMAIN detected_items :
            Blank(detected_items[i]) =>
                /\ \E j \in DOMAIN results :
                      results[j].Artikel = detected_items[i] /\ results[j].no_results
                /\ \A j \in DOMAIN results :
                      results[j].Artikel = detected_items[i] => results[j].no_results

\* C15: in a retry cycle for a failed item no search is made with a
\* candidate equal to the original query of the item, whatever the resolver
\* returned.
C15_OriginalNeverRetried ==
    (cycle.ran /\ cycle.key # NoItemKey) =>
        \A i \in DOMAIN cycle.searched : cycle.searched[i].query # cycle.original

\* The resolver offered the original query among other candidates and the
\* cycle made a search.
C15_Witness ==
    /\ cycle.ran
    /\ cycle.key # NoItemKey
    /\ \E i \in DOMAIN cycle.offered : cycle.offered[i] = cycle.original
    /\ cycle.searched # <<>>

NotOriginal(candidate) == candidate # cycle.original

\* The candidates of the cycle in resolver order, the original query left out.
Eligible == SelectSeq(cycle.offered, NotOriginal)

SearchedQueries == [i \in DOMAIN cycle.searched |-> cycle.searched[i].query]

\* C16: a retry cycle searches the candidates in resolver order; the first
\* search that yields a listing ends it: the record becomes success with
\* that candidate as its query and no later candidate is searched; the
\* record is success only in that way.
C16_FirstHitWins ==
    cycle.ran =>
        LET s == cycle.searched
            rec == retry_status[cycle.key]
        IN  /\ Len(s) <= Len(Eligible)
            /\ SearchedQueries = SubSeq(Eligible, 1, Len(s))
            /\ \A i \in DOMAIN s :
                  s[i].found =>
                      /\ i = Len(s)
                      /\ rec.kind = "success"
                      /\ rec.query = s[i].query
            /\ rec.kind = "success" => s # <<>> /\ s[Len(s)].found

\* The second search of a cycle found a listing and a third candidate was
\* left.
C16_Witness ==
    /\ cycle.ran
    /\ Len(cycle.searched) = 2
    /\ cycle.searched[2].found
    /\ Len(Eligible) > 2
    /\ retry_status[cycle.key].kind = "success"

\* The resolver gets nothing usable: no secret, or no model sent an array
\* with a non-empty query_text.
Unusable(in) ==
    \/ ~in.api_key
    \/ \A i \in DOMAIN in.answers :
          in.answers[i].kind = "list" =>
              \A j \in DOMAIN in.answers[i].terms : in.answers[i].terms[j] = ""

\* C17: get_alternative_search_terms always returns a sequence, the empty
\* one when it gets nothing usable; a retry cycle without candidates stores
\* the record tried (not success) and makes no search.
C17_NoCandidatesExhausts ==
    /\ \A in \in ResolverInputs :
          /\ GetAlternativeSearchTerms(in) \in Seq(CandidateTexts)
          /\ Unusable(in) => GetAlternativeSearchTerms(in) = <<>>
    /\ (cycle.ran /\ cycle.offered = <<>>) =>
          /\ retry_status[cycle.key].kind = "tried"
          /\ cycle.searched = <<>>

\* A cycle of a failed item called the resolver and got no candidate.
C17_Witness ==
    /\ cycle.ran
    /\ cycle.key # NoItemKey
    /\ cycle.resolver_calls = 1
    /\ cycle.offered = <<>>
    /\ retry_status[cycle.key].kind = "tried"

\* The keys of the retry buttons of items without results.
FailedItemKeys ==
    {RetryKey(i, q) : i \in 0..(MaxDetected - 1), q \in DetectedTexts \ {""}}

\* C18: after a click on the retry button of a failed item a retry cycle
\* for that item runs in the end: its record becomes success or tried.
C18_RetryClickRunsCycle ==
    \A key \in FailedItemKeys :
        (clicked = Interaction("retry", key))
            ~> (Has(retry_status, key, "success") \/ Has(retry_status, key, "tried"))

C19_Witness ==
    /\ cycle.ran
    /\ retry_status[cycle.key].kind = "tried"
    /\ Len(cycle.searched) >= 2
    /\ Len(cycle.offered) > Len(cycle.searched)

AllKeys == FailedItemKeys \cup {NoItemKey}

C22_OneEntryPerItem ==
    /\ apc = "show" =>
          /\ Len(results) = Len(detected_items)
          /\ \A i \in DOMAIN results : results[i].Artikel = detected_items[i]
    /\ \A j \in DOMAIN results :
          \/ results[j].no_results
          \/ results[j].min_shown.kind = "eur" /\ results[j].median_shown.kind = "eur"
    /\ results # <<>> =>
          LET last == results[Len(results)]
          IN  IF last.no_results
              THEN ebay_data.current_items = <<>>
              ELSE /\ ebay_data.current_items # <<>>
                   /\ last.min_shown.v = ebay_data.stats["min_current_price"]
                   /\ last.median_shown.v = ebay_data.stats["median_current_price"]
    /\ apc = "idle" =>
          \A j \in DOMAIN NoData(results) :
              RetryKey(j - 1, NoData(results)[j].Artikel) \in rendered

NonEmptyText(query) == query # ""

\* The queries of the entries made so far.
PricedQueries == [j \in DOMAIN results |-> results[j].Artikel]

\* A step of the loop that sends one request, enters a search or moves on.
SequentialStep ==
    /\ (calls' # calls /\ calls' # <<>>) =>
          /\ apc = "search" /\ apc' = "search"
          /\ idx' = idx
          /\ calls' = Append(calls, calls'[Len(calls')])
          /\ calls'[Len(calls')].outcome \in {"ok", "err", "exc"}
    /\ pc' = "token" =>
          /\ pc = "done"
          /\ apc = "price"
    /\ idx' # idx =>
          /\ idx' = idx + 1
          /\ pc = "done"

\* C23: the detected items are priced one after the other in detection
\* order: the entries follow the order of detected_items; a request is
\* sent only inside the search of the item the loop stands at, one per
\* step and answered within it; a search is entered only when no search is
\* running; and the loop moves to the next item only when the search of
\* the item has returned.
C23_PricedInDetectionOrder ==
    /\ [](apc \in {"price", "search", "show"} =>
             PricedQueries = SelectSeq(SubSeq(detected_items, 1, idx - 1), NonEmptyText))
    /\ [][SequentialStep]_allvars

\* The search of the second item has sent its second request.
C23_Witness ==
    /\ apc = "search"
    /\ idx = 2
    /\ Len(results) = 1
    /\ Len(calls) = 2

OutcomeKeys == {"current_items", "sold_items", "stats"}

\* C24: search_ebay_items always comes to a return, and what it returns
\* holds current_items, sold_items and stats, whatever the token exchange
\* and the searches did: no token, a non-200 status, a raised request, a
\* listing whose price makes float() raise.
C24_AlwaysReturnsOutcome ==
    /\ pc \in {"token", "tier1", "tier2", "normalize", "tier3", "stats", "done"}
    /\ Returned =>
          /\ DOMAIN result = OutcomeKeys
          /\ result.sold_items = <<>>
          /\ \A i \in DOMAIN result.current_items :
                DOMAIN result.current_items[i]
                    = {"price", "price_with_shipping", "shipping_cost", "itemId"}

\* The function returned after float() raised a TypeError on a listing.
C24_Witness ==
    /\ Returned
    /\ oauth_token
    /\ response.status_code = HTTP_OK
    /\ ProcessItems(response.items).raised
    /\ result = EmptyOutcome

\* C25: when the marketplace credentials are missing from the secrets, an
\* exception leaves get_ebay_oauth_token, and a search whose token exchange
\* went that way does not return the outcome of a search without listings.
C25_MissingCredentialsAreFatal ==
    \A in \in TokenInputs :
        ~in.secrets =>
            /\ GetEbayOauthToken(in).raised
            /\ (Returned /\ oauth_token = GetEbayOauthToken(in).token) =>
                  result # NoResultsOutcome

\* The text the analysis parses: that of the first model that answers.
ResponseText ==
    LET m == FirstResponse(vision.answers, 1)
    IN  IF m = 0 THEN <<>> ELSE vision.answers[m].text

\* The texts that are not an array, bare or fenced: another JSON value,
\* text that is no JSON, or an array after a sentence.
NoArrayTexts ==
    UNION {Wrapped(t) : t \in OtherPayloads}
        \cup {Prefixed(t) : t \in ArrayPayloads \cup OtherPayloads}

\* C26: analyze_image_with_gemini always returns a sequence; it is the
\* empty sequence when the secret is missing, when every model call
\* raises, when the response has no text, and when the text does not parse
\* or is not an array.
C26_UnparseableIsNothingDetected ==
    apc # "analyze" =>
        /\ detected_items \in Seq(DetectedTexts)
        /\ ( \/ ~vision.api_key
             \/ FirstResponse(vision.answers, 1) = 0
             \/ vision.answers[FirstResponse(vision.answers, 1)].kind = "notext"
             \/ ResponseText \in NoArrayTexts )
           => detected_items = <<>> /\ apc = "noitem"

\* The second model answered with a JSON object in a fence.
C26_Witness ==
    /\ apc = "noitem"
    /\ vision.api_key
    /\ FirstResponse(vision.answers, 1) = 2
    /\ ResponseText = JsonFence \o <<"{", "}">> \o Fence
    /\ detected_items = <<>>

\* C27: an array in a code fence, with or without the json tag, is parsed
\* to the items of the array, as the bare array is.
C27_FencedParsesAsBare ==
    (apc # "analyze" /\ vision.api_key /\ FirstResponse(vision.answers, 1) # 0
        /\ vision.answers[FirstResponse(vision.answers, 1)].kind = "text") =>
        \A l \in DetectedLists :
            /\ JsonLoads(Unfence(ArrayText(l))).items = l
            /\ ResponseText \in Fenced(ArrayText(l)) \cup {ArrayText(l)} =>
                  detected_items = l

\* The model sent two objects in a fence with the json tag.
C27_Witness ==
    /\ apc = "price"
    /\ ResponseText = JsonFence \o <<" ">> \o ArrayText(<<"a", " ">>) \o <<" ">> \o Fence
    /\ detected_items = <<"a", " ">>

\* C28: the retry records of failed items are keyed by the original query:
\* two keys offered or stored for the same original query are the same key
\* (and keys of different queries differ, which the key's hash part gives).
C28_KeyedByOriginalQuery ==
    \A k1, k2 \in (rendered \cup DOMAIN retry_status) \ {NoItemKey} :
        /\ k1.query = k2.query => k1 = k2
        /\ k1.query # k2.query => k1 # k2

SucceededStep ==
    \A key \in AllKeys :
        Has(retry_status, key, "success") =>
            /\ key \in DOMAIN retry_status'
            /\ retry_status'[key] = retry_status[key]
            /\ key \notin rendered'
            /\ clicked' # Interaction("retry", key)
            /\ (cycle'.ran /\ cycle'.key = key) => cycle' = cycle

\* C30: once the record of a key is a success, its retry button is not
\* shown or clicked any more, no cycle runs for it, and the record keeps
\* its query, prices and link.
C30_SucceededIsTerminal == [][SucceededStep]_allvars

\* A cycle of the session ended in a success with the candidate "a", and
\* the script has run again since.
C30_Witness ==
    /\ apc = "idle"
    /\ Has(retry_status, RetryKey(0, " "), "success")
    /\ retry_status[RetryKey(0, " ")].query = "a"
    /\ cycle = NoCycle
    /\ rendered = {}

\* The total prices of the listings a search returned, in their order.
TotalsOf(data) ==
    [i \in DOMAIN data.current_items |-> data.current_items[i].price_with_shipping]

\* C31: a success record agrees with the search that produced it: its
\* query is the candidate of that search, which returned a listing; its
\* min_price and median_price are the minimum and the median of the total
\* prices of the listings returned, taken from statistics that are
\* present; its link is that of a listing with the minimum total price.
C31_SuccessRecordMatchesSearch ==
    (cycle.ran /\ Has(retry_status, cycle.key, "success")) =>
        LET rec == retry_status[cycle.key]
            data == cycle.ebay_data_retry
            totals == TotalsOf(data)
        IN  /\ cycle.searched # <<>>
            /\ cycle.searched[Len(cycle.searched)].found
            /\ rec.query = cycle.searched[Len(cycle.searched)].query
            /\ data.current_items # <<>>
            /\ {"min_current_price", "median_current_price"} \subseteq DOMAIN data.stats
            /\ \A i \in DOMAIN totals : rec.min_price <= totals[i]
            /\ \E i \in DOMAIN totals :
                  /\ totals[i] = rec.min_price
                  /\ rec.link = ItemWebUrl(data.current_items[i])
            /\ \A i \in 1..(Len(totals) - 1) : totals[i] <= totals[i + 1]
            /\ rec.median_price = Median(totals)

\* The search of a candidate returned two listings of totals 4 and 2; the
\* record holds 2, 3 and the link of the cheaper one.
C31_Witness ==
    /\ cycle.ran
    /\ Has(retry_status, cycle.key, "success")
    /\ Len(cycle.ebay_data_retry.current_items) = 2
    /\ retry_status[cycle.key].min_price = 2
    /\ retry_status[cycle.key].median_price = 3
    /\ retry_status[cycle.key].link = cycle.ebay_data_retry.current_items[1].itemId

\* C32: a retry cycle that finds no stored image bytes stores the record
\* tried, calls no resolver and makes no search.
C32_NoImageExhausts ==
    (cycle.ran /\ image_bytes <= 0) =>
        /\ Has(retry_status, cycle.key, "tried")
        /\ cycle.resolver_calls = 0
        /\ cycle.offered = <<>>
        /\ cycle.searched = <<>>

\* The cycle of a failed item ran without the image.
C32_Witness ==
    /\ cycle.ran
    /\ image_bytes <= 0
    /\ cycle.key \in FailedItemKeys
    /\ cycle.resolver_calls = 0
    /\ Has(retry_status, cycle.key, "tried")

\* The keys whose record the run of an analysis has shown.
ShownKeys ==
    IF detected_items = <<>>
    THEN {NoItemKey}
    ELSE {RetryKey(i - 1, NoData(results)[i].Artikel) : i \in DOMAIN NoData(results)}

C34_ReducedCapNotLarger ==
    \A i, j \in DOMAIN calls :
        /\ calls[i].tier \in {1, 2} => calls[i].limit <= 200
        /\ (calls[i].tier = 1 /\ calls[j].tier = 2) => calls[i].limit = calls[j].limit
        /\ (calls[i].tier \in {1, 2} /\ calls[j].tier = 3) =>
              calls[j].limit <= calls[i].limit

\* A step in which a retry cycle ran leaves every other record and the
\* stored image bytes as they were.
CycleFrame ==
    cycle'.ran =>
        /\ DOMAIN retry_status' = DOMAIN retry_status \cup {cycle'.key}
        /\ \A key \in DOMAIN retry_status \ {cycle'.key} :
              retry_status'[key] = retry_status[key]
        /\ image_bytes' = image_bytes

\* C35: a retry cycle for one key changes only the record of that key: the
\* records of all other keys and the stored image bytes stay unchanged.
C35_CycleChangesOwnRecordOnly == [][CycleFrame]_allvars

\* The cycle of the second failed item ended in a success while the first
\* item and the nothing-detected key hold records of their own.
C35_Witness ==
    /\ cycle.ran
    /\ cycle.key = RetryKey(1, " ")
    /\ Has(retry_status, cycle.key, "success")
    /\ Has(retry_status, RetryKey(0, "a"), "tried")
    /\ Has(retry_status, NoItemKey, "processing")
    /\ image_bytes = image_to_process

====
